---------------------------- MODULE Spec2Model ----------------------------
(***************************************************************************)
(* A model of card-core (src/src/cards.rs, src/src/deck.rs) and of its     *)
(* blackjack example (src/examples/blackjack/src/main.rs).                 *)
(*                                                                         *)
(* Ten state machines share the module:                                    *)
(*   SpecDeck    one Deck driven by draw / draw_nth / add / add_deck;      *)
(*   SpecEval    BlackjackEvaluator::compare_hands applied to two hands;   *)
(*   Spec        a BlackjackTable from BlackjackTable::new();              *)
(*   SpecDraw    draw_card at every shoe length, over many random numbers; *)
(*   SpecLate    the same table, started late in the shoe;                 *)
(*   SpecShoe    a deck built up by add_deck and drained by draw;          *)
(*   SpecValue   hand_value and get_best_total applied to one hand;        *)
(*   SpecCard    Card::from_ordinals and to_ordinal on every u8 pair;      *)
(*   SpecTotals  the table with box_total and dealer_total among its calls;*)
(*   SpecLong    the same, started with many cards in one box.             *)
(*                                                                         *)
(* Option<T> is modelled as a sequence of at most one element: None is     *)
(* << >> and Some(x) is << x >>.                                           *)
(***************************************************************************)
EXTENDS Integers, Sequences, FiniteSets, Bags, TLC

VARIABLES
    deck,       \* Deck.cards of the deck under test / BlackjackTable.deck (the shoe)
    other,      \* Deck.cards of the deck handed to add_deck
    boxes,      \* BlackjackTable.boxes
    dealer,     \* BlackjackTable.dealer
    pc,         \* "idle", or the table operation whose body is running
    i,          \* loop counter of deal_cards
    panicked,   \* the process has panicked (unwrap on None, overflow check)
    overflow_checks, \* build mode: TRUE = arithmetic overflow panics (debug)
    hist,       \* history: the calls made so far, with arguments and results
    start,      \* history: the deck as constructed
    player,     \* compare_hands argument `player`
    dealer_hand,\* compare_hands argument `dealer`
    result      \* what the function under test returned

vars == << deck, other, boxes, dealer, pc, i, panicked, overflow_checks,
           hist, start, player, dealer_hand, result >>

None == << >>
Some(x) == << x >>

(***************************************************************************)
(* cards.rs                                                                *)
(***************************************************************************)
Suits == { "Clubs", "Diamonds", "Hearts", "Spades", "None" }
Ranks == { "Ace", "Two", "Three", "Four", "Five", "Six", "Seven", "Eight",
           "Nine", "Ten", "Jack", "Queen", "King", "Joker" }

Suit_to_ordinal(suit) ==
    CASE suit = "Clubs" -> 0
      [] suit = "Diamonds" -> 1
      [] suit = "Hearts" -> 2
      [] suit = "Spades" -> 3
      [] OTHER -> 4

\* from_ordinal that wraps an ordinal past Spades round to Clubs
Suit_from_ordinal_wrapping(suit) ==
    CASE suit % 4 = 0 -> "Clubs"
      [] suit % 4 = 1 -> "Diamonds"
      [] suit % 4 = 2 -> "Hearts"
      [] OTHER -> "Spades"

Suit_from_ordinal(suit) ==
    CASE suit = 0 -> "Clubs"
      [] suit = 1 -> "Diamonds"
      [] suit = 2 -> "Hearts"
      [] suit = 3 -> "Spades"
      [] OTHER -> "None"

Rank_to_ordinal(rank) ==
    CASE rank = "Ace" -> 0
      [] rank = "Two" -> 1
      [] rank = "Three" -> 2
      [] rank = "Four" -> 3
      [] rank = "Five" -> 4
      [] rank = "Six" -> 5
      [] rank = "Seven" -> 6
      [] rank = "Eight" -> 7
      [] rank = "Nine" -> 8
      [] rank = "Ten" -> 9
      [] rank = "Jack" -> 10
      [] rank = "Queen" -> 11
      [] rank = "King" -> 12
      [] OTHER -> 13

\* from_ordinal counting the ranks from 1: Ace is 1, King is 13
Rank_from_ordinal_one_based(rank) ==
    CASE rank = 1 -> "Ace"
      [] rank = 2 -> "Two"
      [] rank = 3 -> "Three"
      [] rank = 4 -> "Four"
      [] rank = 5 -> "Five"
      [] rank = 6 -> "Six"
      [] rank = 7 -> "Seven"
      [] rank = 8 -> "Eight"
      [] rank = 9 -> "Nine"
      [] rank = 10 -> "Ten"
      [] rank = 11 -> "Jack"
      [] rank = 12 -> "Queen"
      [] rank = 13 -> "King"
      [] OTHER -> "Joker"

Rank_from_ordinal(rank) ==
    CASE rank = 0 -> "Ace"
      [] rank = 1 -> "Two"
      [] rank = 2 -> "Three"
      [] rank = 3 -> "Four"
      [] rank = 4 -> "Five"
      [] rank = 5 -> "Six"
      [] rank = 6 -> "Seven"
      [] rank = 7 -> "Eight"
      [] rank = 8 -> "Nine"
      [] rank = 9 -> "Ten"
      [] rank = 10 -> "Jack"
      [] rank = 11 -> "Queen"
      [] rank = 12 -> "King"
      [] OTHER -> "Joker"

Card_from_suit_and_rank(suit, rank) == [ suit |-> suit, rank |-> rank ]

Card_from_ordinals(suit, rank) ==
    [ suit |-> Suit_from_ordinal(suit), rank |-> Rank_from_ordinal(rank) ]

\* suit_ordinal*13 + rank_ordinal, the number deck.rs's tests compare against
CardOrdinal(card) ==
    Suit_to_ordinal(card.suit) * 13 + Rank_to_ordinal(card.rank)

(***************************************************************************)
(* deck.rs.  A Deck is its VecDeque<Card>, a sequence; position n of the   *)
(* code (0-indexed) is element n+1 here.  An operation that returns a      *)
(* value yields the new cards together with the value.                     *)
(***************************************************************************)
Deck_default == [ p \in 1..52 |-> Card_from_ordinals((p - 1) \div 13, (p - 1) % 13) ]

Deck_new == Deck_default

Deck_new_empty == << >>

Deck_len(cards) == Len(cards)

\* draw by VecDeque::pop_front: the card at the front
Deck_draw_front(cards) ==
    IF Len(cards) = 0
    THEN [ cards |-> cards, ret |-> None ]
    ELSE [ cards |-> SubSeq(cards, 2, Len(cards)),
           ret   |-> Some(cards[1]) ]

\* VecDeque::pop_back
Deck_draw(cards) ==
    IF Len(cards) = 0
    THEN [ cards |-> cards, ret |-> None ]
    ELSE [ cards |-> SubSeq(cards, 1, Len(cards) - 1),
           ret   |-> Some(cards[Len(cards)]) ]

\* draw_nth that copies the card out and leaves it in the deck
Deck_draw_nth_copy(cards, n) ==
    IF n >= Len(cards)
    THEN [ cards |-> cards, ret |-> None ]
    ELSE [ cards |-> cards, ret |-> Some(cards[n + 1]) ]

\* draw_nth by VecDeque::swap_remove_back: the last card fills the gap
Deck_draw_nth_swap(cards, n) ==
    IF n >= Len(cards)
    THEN [ cards |-> cards, ret |-> None ]
    ELSE [ cards |-> SubSeq([ cards EXCEPT ![n + 1] = cards[Len(cards)] ],
                            1, Len(cards) - 1),
           ret   |-> Some(cards[n + 1]) ]

\* draw_nth that serves a position past the end with the last card
Deck_draw_nth_clamp(cards, n) ==
    IF Len(cards) = 0
    THEN [ cards |-> cards, ret |-> None ]
    ELSE IF n >= Len(cards)
    THEN [ cards |-> SubSeq(cards, 1, Len(cards) - 1),
           ret   |-> Some(cards[Len(cards)]) ]
    ELSE [ cards |-> SubSeq(cards, 1, n) \o SubSeq(cards, n + 2, Len(cards)),
           ret   |-> Some(cards[n + 1]) ]

\* VecDeque::remove(n): None when n is out of bounds, else the element at n,
\* the elements after it moving one place to the front
Deck_draw_nth(cards, n) ==
    IF n >= Len(cards)
    THEN [ cards |-> cards, ret |-> None ]
    ELSE [ cards |-> SubSeq(cards, 1, n) \o SubSeq(cards, n + 2, Len(cards)),
           ret   |-> Some(cards[n + 1]) ]

\* VecDeque::push_back
Deck_add(cards, card) == Append(cards, card)

\* add_deck that takes the other deck's cards in place of its own
Deck_add_deck_replace(cards, deck_cards) ==
    [ cards |-> deck_cards, deck |-> << >> ]

\* add_deck that puts the other deck's cards in front of its own
Deck_add_deck_front(cards, deck_cards) ==
    [ cards |-> deck_cards \o cards, deck |-> << >> ]

\* VecDeque::append: moves every element of `deck` to the back of self
Deck_add_deck(cards, deck_cards) ==
    [ cards |-> cards \o deck_cards, deck |-> << >> ]


(***************************************************************************)
(* main.rs: HandTotal and BlackjackEvaluator.  hard_total and soft_total   *)
(* are u8: an addition that exceeds 255 panics when the build checks       *)
(* overflow (`checks`) and wraps modulo 256 when it does not.  A function  *)
(* that can panic yields [panic, val].                                     *)
(***************************************************************************)
HandTotal_default == [ hard_total |-> 0, soft_total |-> 0 ]

Min(a, b) == IF a < b THEN a ELSE b
Max(a, b) == IF a > b THEN a ELSE b

HandTotal_add_assign(self, rhs, checks) ==
    [ panic |-> checks /\ ( \/ self.hard_total + rhs.hard_total > 255
                            \/ self.soft_total + rhs.soft_total > 255 ),
      val   |-> [ hard_total |-> (self.hard_total + rhs.hard_total) % 256,
                  soft_total |-> (self.soft_total + rhs.soft_total) % 256 ] ]

\* get_best_total taking the minimum on both paths
get_best_total_min(total) == Min(total.hard_total, total.soft_total)

\* get_best_total taking the maximum on both paths
get_best_total_max(total) == Max(total.hard_total, total.soft_total)

get_best_total(total) ==
    IF total.hard_total > 21
    THEN Min(total.hard_total, total.soft_total)
    ELSE Max(total.hard_total, total.soft_total)

get_card_value(card) ==
    CASE card.rank = "Ace" ->
            [ panic |-> FALSE, val |-> [ hard_total |-> 11, soft_total |-> 1 ] ]
      [] card.rank \in { "Ten", "Jack", "Queen", "King" } ->
            [ panic |-> FALSE, val |-> [ hard_total |-> 10, soft_total |-> 10 ] ]
      [] card.rank = "Joker" ->
            [ panic |-> TRUE, val |-> HandTotal_default ]
      [] OTHER ->
            LET v == Rank_to_ordinal(card.rank) + 1
            IN  [ panic |-> FALSE, val |-> [ hard_total |-> v, soft_total |-> v ] ]

\* the loop of hand_value from card k on, `acc` being `result` so far
RECURSIVE hand_value_loop(_, _, _, _)
hand_value_loop(hand, k, acc, checks) ==
    IF k > Len(hand)
    THEN [ panic |-> FALSE, val |-> acc ]
    ELSE LET card_value == get_card_value(hand[k])
             sum == HandTotal_add_assign(acc, card_value.val, checks)
         IN  IF card_value.panic \/ sum.panic
             THEN [ panic |-> TRUE, val |-> acc ]
             ELSE hand_value_loop(hand, k + 1, sum.val, checks)

hand_value(hand, checks) == hand_value_loop(hand, 1, HandTotal_default, checks)

\* HandResult
DealerWins(is_blackjack) == << "DealerWins", is_blackjack >>
PlayerWins(is_blackjack) == << "PlayerWins", is_blackjack >>
Push == << "Push" >>

\* the "check for blackjack" test of compare_hands without its card count
is_blackjack_any21(cards, total) == get_best_total(total) = 21

\* the test compare_hands makes of either hand under "check for blackjack"
is_blackjack(cards, total) == Len(cards) = 2 /\ get_best_total(total) = 21

\* "normal hand eval" without its test for a player bust
normal_hand_eval_no_bust(player_total, dealer_total) ==
    IF player_total > dealer_total
    THEN PlayerWins(FALSE)
    ELSE IF player_total < dealer_total
    THEN DealerWins(FALSE)
    ELSE Push

\* "normal hand eval" in which the dealer takes equal totals
normal_hand_eval_ties_to_dealer(player_total, dealer_total) ==
    IF player_total > 21
    THEN DealerWins(FALSE)
    ELSE IF player_total > dealer_total
    THEN PlayerWins(FALSE)
    ELSE DealerWins(FALSE)

\* the "normal hand eval" part of compare_hands, on the two best totals
normal_hand_eval(player_total, dealer_total) ==
    IF player_total > 21
    THEN DealerWins(FALSE)
    ELSE IF player_total > dealer_total
    THEN PlayerWins(FALSE)
    ELSE IF player_total < dealer_total
    THEN DealerWins(FALSE)
    ELSE Push

compare_hands(player_cards, dealer_cards, checks) ==
    LET pv == hand_value(player_cards, checks)
        dv == hand_value(dealer_cards, checks)
    IN  IF pv.panic \/ dv.panic
        THEN [ panic |-> TRUE, val |-> << >> ]
        ELSE [ panic |-> FALSE, val |->
               IF is_blackjack(player_cards, pv.val)
               THEN IF is_blackjack(dealer_cards, dv.val)
                    THEN Push
                    ELSE PlayerWins(TRUE)
               ELSE IF is_blackjack(dealer_cards, dv.val)
               THEN IF is_blackjack(player_cards, pv.val)
                    THEN Push
                    ELSE DealerWins(TRUE)
               ELSE normal_hand_eval(get_best_total(pv.val), get_best_total(dv.val)) ]

(***************************************************************************)
(* SpecDeck: one Deck, built by Deck::new() or Deck::new_empty(), and the  *)
(* calls a caller can make on it.  hist records every call: its name, its  *)
(* index argument (n), the cards handed in (given), the value returned     *)
(* (ret) and the cards the deck held before the call (before).             *)
(***************************************************************************)
MaxOps == 3

\* positions asked of draw_nth: the ones of deck.rs's test (10, 20, 40, 50),
\* the front, and one that is out of range on every deck of the model
NthArgs == { 0, 10, 20, 40, 50, 120 }

AddCards == { Card_from_ordinals(0, 0), Card_from_ordinals(3, 12) }

\* the deck handed to add_deck: standard, empty, or two cards added to an empty one
OtherDecks ==
    { Deck_new, Deck_new_empty,
      Deck_add(Deck_add(Deck_new_empty, Card_from_ordinals(1, 4)), Card_from_ordinals(2, 9)) }

Call(op, n, given, ret, before) ==
    [ op |-> op, n |-> n, given |-> given, ret |-> ret, before |-> before ]

InitIdle ==
    /\ boxes = << >>
    /\ dealer = << >>
    /\ pc = "idle"
    /\ i = 0
    /\ panicked = FALSE
    /\ overflow_checks = FALSE
    /\ player = << >>
    /\ dealer_hand = << >>
    /\ result = << >>

InitDeck ==
    /\ deck \in { Deck_new, Deck_new_empty }
    /\ start = deck
    /\ other \in OtherDecks
    /\ hist = << >>
    /\ InitIdle

DeckFrame ==
    UNCHANGED << boxes, dealer, pc, i, panicked, overflow_checks, start,
                 player, dealer_hand, result >>

Draw ==
    /\ Len(hist) < MaxOps
    /\ LET r == Deck_draw(deck)
       IN  /\ deck' = r.cards
           /\ hist' = Append(hist, Call("draw", 0, << >>, r.ret, deck))
    /\ UNCHANGED other
    /\ DeckFrame

DrawNth(n) ==
    /\ Len(hist) < MaxOps
    /\ LET r == Deck_draw_nth(deck, n)
       IN  /\ deck' = r.cards
           /\ hist' = Append(hist, Call("draw_nth", n, << >>, r.ret, deck))
    /\ UNCHANGED other
    /\ DeckFrame

Add(card) ==
    /\ Len(hist) < MaxOps
    /\ deck' = Deck_add(deck, card)
    /\ hist' = Append(hist, Call("add", 0, << card >>, None, deck))
    /\ UNCHANGED other
    /\ DeckFrame

AddDeck ==
    /\ Len(hist) < MaxOps
    /\ LET r == Deck_add_deck(deck, other)
       IN  /\ deck' = r.cards
           /\ other' = r.deck
           /\ hist' = Append(hist, Call("add_deck", 0, other, None, deck))
    /\ DeckFrame

NextDeck ==
    \/ Draw
    \/ \E n \in NthArgs : DrawNth(n)
    \/ \E card \in AddCards : Add(card)
    \/ AddDeck

SpecDeck == InitDeck /\ [][NextDeck]_vars


(***************************************************************************)
(* Properties of SpecDeck                                                  *)
(***************************************************************************)
Range(s) == { s[k] : k \in DOMAIN s }

Second(x) == x[2]

\* the multiset of the elements of a sequence: its elements, told apart by
\* their positions, counted without the positions
BagOfSeq(s) == BagOfAll(Second, SetToBag({ << k, s[k] >> : k \in DOMAIN s }))

RECURSIVE BagOfGiven(_)
BagOfGiven(h) ==
    IF h = << >> THEN EmptyBag
    ELSE BagOfSeq(h[Len(h)].given) (+) BagOfGiven(SubSeq(h, 1, Len(h) - 1))

RECURSIVE BagOfReturned(_)
BagOfReturned(h) ==
    IF h = << >> THEN EmptyBag
    ELSE BagOfSeq(h[Len(h)].ret) (+) BagOfReturned(SubSeq(h, 1, Len(h) - 1))

\* the last call made.  Every call is the last one in the state it leads to,
\* so a condition on the last call of every reachable state is a condition
\* on every call.
Last == hist[Len(hist)]

IsDrawCall(c) == c.op \in { "draw", "draw_nth" }

\* C1: over any sequence of draw, draw_nth, add and add_deck from Deck::new()
\* or Deck::new_empty(), len() is the number of cards held; a successful draw
\* or draw_nth takes exactly one card, one the deck held; a failed one changes
\* nothing; add adds exactly one card; and, as multisets, the initial cards
\* plus the cards added are the cards returned plus the cards remaining.
C1_Conservation ==
    /\ Deck_len(deck) = BagCardinality(BagOfSeq(deck))
    /\ BagOfSeq(start) (+) BagOfGiven(hist) = BagOfReturned(hist) (+) BagOfSeq(deck)
    /\ hist # << >> =>
          /\ (IsDrawCall(Last) /\ Last.ret # None) =>
                /\ Deck_len(deck) = Deck_len(Last.before) - 1
                /\ Last.ret[1] \in Range(Last.before)
                /\ BagOfSeq(deck) (+) BagOfSeq(Last.ret) = BagOfSeq(Last.before)
          /\ (IsDrawCall(Last) /\ Last.ret = None) => deck = Last.before
          /\ Last.op = "add" =>
                /\ Deck_len(deck) = Deck_len(Last.before) + 1
                /\ BagOfSeq(deck) = BagOfSeq(Last.before) (+) BagOfSeq(Last.given)
          /\ Last.op = "add_deck" =>
                BagOfSeq(deck) = BagOfSeq(Last.before) (+) BagOfSeq(Last.given)

\* a run with a successful draw_nth, a failed draw and an add behind it
C1_Witness ==
    /\ \E k \in DOMAIN hist : hist[k].op = "draw_nth" /\ hist[k].ret # None
    /\ \E k \in DOMAIN hist : IsDrawCall(hist[k]) /\ hist[k].ret = None
    /\ \E k \in DOMAIN hist : hist[k].op \in { "add", "add_deck" } /\ hist[k].given # << >>

\* C6: draw_nth(n) with 0 <= n < L returns the card at position n, leaves
\* L-1 cards, keeps the cards before n in place and moves every card after n
\* one position to the front; so consecutive calls index the shifted deck: on
\* a fresh standard deck draw_nth(10), draw_nth(20), draw_nth(40) return the
\* cards of ordinal 10, 21 and 42.
C6_DrawNthShifts ==
    /\ (hist # << >> /\ Last.op = "draw_nth" /\ Last.n < Deck_len(Last.before)) =>
          LET n == Last.n
              L == Deck_len(Last.before)
          IN  /\ Last.ret = Some(Last.before[n + 1])
              /\ Deck_len(deck) = L - 1
              /\ \A p \in 0..(n - 1) : deck[p + 1] = Last.before[p + 1]
              /\ \A p \in (n + 1)..(L - 1) : deck[p] = Last.before[p + 1]
    /\ ( /\ start = Deck_new
         /\ Len(hist) >= 3
         /\ \A k \in 1..3 : hist[k].op = "draw_nth"
         /\ << hist[1].n, hist[2].n, hist[3].n >> = << 10, 20, 40 >> )
       => /\ \A k \in 1..3 : hist[k].ret # None
          /\ << CardOrdinal(hist[1].ret[1]), CardOrdinal(hist[2].ret[1]),
                CardOrdinal(hist[3].ret[1]) >> = << 10, 21, 42 >>

\* the three calls of deck.rs's test have been made on a fresh standard deck
C6_Witness ==
    /\ start = Deck_new
    /\ Len(hist) = 3
    /\ \A k \in 1..3 : hist[k].op = "draw_nth" /\ hist[k].ret # None
    /\ << hist[1].n, hist[2].n, hist[3].n >> = << 10, 20, 40 >>

\* a call that cannot be served: draw_nth(n) with n >= len(), or draw() on an
\* empty deck
Unservable(c) ==
    \/ c.op = "draw_nth" /\ c.n >= Deck_len(c.before)
    \/ c.op = "draw" /\ Deck_len(c.before) = 0

\* C13: draw_nth(n) with n >= len(), on an empty deck too, and draw() on an
\* empty deck return None and leave the deck's length and cards as they were.
C13_FailedDrawChangesNothing ==
    (hist # << >> /\ Unservable(Last)) =>
        /\ Last.ret = None
        /\ Deck_len(deck) = Deck_len(Last.before)
        /\ deck = Last.before

\* draw() has failed on an empty deck, and draw_nth has failed past the end
\* of a deck that holds cards
C13_Witness ==
    /\ \E k \in DOMAIN hist : hist[k].op = "draw" /\ hist[k].before = << >> /\ hist[k].ret = None
    /\ \E k \in DOMAIN hist :
          /\ hist[k].op = "draw_nth"
          /\ hist[k].before # << >>
          /\ hist[k].n >= Deck_len(hist[k].before)
          /\ hist[k].ret = None
          /\ deck = hist[k].before


(***************************************************************************)
(* SpecEval: compare_hands applied to a player hand and a dealer hand.     *)
(* compare_hands reads a hand only through its length and hand_value, and  *)
(* get_card_value gives Ten, Jack, Queen and King one common arm; the      *)
(* hands offered are the hands of evaluate_some_hands (main.rs 275-289)    *)
(* and, for every multiset of at most MaxHand of the ten card values, one  *)
(* hand holding them in rising order, its ten-valued cards taking the      *)
(* ranks King, Jack, Ten, Queen by position.                               *)
(***************************************************************************)
MaxHand == 3

\* one standard card of rank ordinal r
RankCard(r) == Card_from_ordinals(r % 4, r)

\* rank ordinals of the ten-valued card at positions 1, 2, 3, 4 (mod 4)
TenRanks == << 12, 10, 9, 11 >>

\* the card at position k of a hand, of value class v: 0..8 are Ace..Nine,
\* 9 is a ten-valued card
ValueCard(v, k) ==
    IF v < 9 THEN RankCard(v) ELSE RankCard(TenRanks[((k - 1) % 4) + 1])

NonDecreasing(f) == \A k \in DOMAIN f : k = 1 \/ f[k - 1] <= f[k]

RankHands ==
    UNION { { [ k \in 1..n |-> ValueCard(f[k], k) ] :
                f \in { g \in [ 1..n -> 0..9 ] : NonDecreasing(g) } } : n \in 0..MaxHand }

ExamplePlayerHands ==
    { << Card_from_suit_and_rank("Clubs", "Ace"), Card_from_suit_and_rank("Hearts", "Seven") >>,
      << Card_from_suit_and_rank("Clubs", "Ace"), Card_from_suit_and_rank("Hearts", "King") >> }

ExampleDealerHands ==
    { << Card_from_suit_and_rank("Diamonds", "Jack"), Card_from_suit_and_rank("Hearts", "Seven") >>,
      << Card_from_suit_and_rank("Diamonds", "Nine"), Card_from_suit_and_rank("Hearts", "Eight") >>,
      << Card_from_suit_and_rank("Diamonds", "Jack"), Card_from_suit_and_rank("Hearts", "Ace") >>,
      << Card_from_suit_and_rank("Diamonds", "Nine"), Card_from_suit_and_rank("Hearts", "Seven"),
         Card_from_suit_and_rank("Spades", "Five") >> }

InitEval ==
    /\ player \in RankHands \cup ExamplePlayerHands
    /\ dealer_hand \in RankHands \cup ExampleDealerHands
    /\ result = << >>
    /\ deck = << >>
    /\ other = << >>
    /\ boxes = << >>
    /\ dealer = << >>
    /\ pc = "idle"
    /\ i = 0
    /\ panicked = FALSE
    /\ overflow_checks = FALSE
    /\ hist = << >>
    /\ start = << >>

\* one call of compare_hands(&player, &dealer), in either build mode
CompareHands ==
    /\ result = << >>
    /\ ~panicked
    /\ \E checks \in BOOLEAN :
          LET r == compare_hands(player, dealer_hand, checks)
          IN  /\ panicked' = r.panic
              /\ result' = IF r.panic THEN << >> ELSE << r.val >>
    /\ UNCHANGED << deck, other, boxes, dealer, pc, i, overflow_checks, hist,
                    start, player, dealer_hand >>

NextEval == CompareHands

SpecEval == InitEval /\ [][NextEval]_vars


(***************************************************************************)
(* Properties of SpecEval                                                  *)
(***************************************************************************)
\* best total of a hand of standard cards (no build mode matters: at most
\* MaxHand + 1 cards never reach 256)
BestOf(hand) == get_best_total(hand_value(hand, FALSE).val)

\* a natural: exactly two cards whose best total is 21
IsNatural(hand) == Len(hand) = 2 /\ BestOf(hand) = 21

Compared == result # << >>

\* C2: naturals are decided first: both natural -> Push; only the player ->
\* PlayerWins(true) whatever the dealer holds; only the dealer ->
\* DealerWins(true) whatever the player holds; in every other case the
\* result carries the flag false (or is Push).
C2_NaturalsFirst ==
    Compared =>
        /\ (IsNatural(player) /\ IsNatural(dealer_hand)) => result[1] = Push
        /\ (IsNatural(player) /\ ~IsNatural(dealer_hand)) => result[1] = PlayerWins(TRUE)
        /\ (~IsNatural(player) /\ IsNatural(dealer_hand)) => result[1] = DealerWins(TRUE)
        /\ (~IsNatural(player) /\ ~IsNatural(dealer_hand)) =>
               result[1] \in { PlayerWins(FALSE), DealerWins(FALSE), Push }

\* a player natural has beaten a dealer 21 of three cards
C2_Witness ==
    /\ Compared
    /\ IsNatural(player)
    /\ Len(dealer_hand) = 3 /\ BestOf(dealer_hand) = 21
    /\ result[1] = PlayerWins(TRUE)

\* C7 (as claimed): with no natural on either side, a player total <= 21
\* against a dealer total > 21 gives PlayerWins(false).
C7_DealerBustPlayerWins ==
    ( /\ Compared
      /\ ~IsNatural(player) /\ ~IsNatural(dealer_hand)
      /\ BestOf(player) <= 21
      /\ BestOf(dealer_hand) > 21 )
    => result[1] = PlayerWins(FALSE)

ClaimC8Player ==
    << Card_from_suit_and_rank("Clubs", "Ace"), Card_from_suit_and_rank("Hearts", "Seven") >>

ClaimC8Dealer ==
    << Card_from_suit_and_rank("Diamonds", "Jack"), Card_from_suit_and_rank("Hearts", "Seven") >>

\* C8 (as claimed): [Ace of Clubs, Seven of Hearts] against
\* [Jack of Diamonds, Seven of Hearts] gives PlayerWins(true).
C8_Original ==
    (Compared /\ player = ClaimC8Player /\ dealer_hand = ClaimC8Dealer)
    => result[1] = PlayerWins(TRUE)

\* C8 (amended): [Ace of Clubs, Seven of Hearts] against
\* [Jack of Diamonds, Seven of Hearts] gives PlayerWins(false): the player's
\* hand is hard 18 / soft 8, best total 18, no natural, against 17.
C8_AceSevenIsEighteen ==
    (Compared /\ player = ClaimC8Player /\ dealer_hand = ClaimC8Dealer)
    => /\ result[1] = PlayerWins(FALSE)
       /\ hand_value(player, FALSE).val = [ hard_total |-> 18, soft_total |-> 8 ]
       /\ BestOf(player) = 18
       /\ BestOf(dealer_hand) = 17

C8_Witness ==
    Compared /\ player = ClaimC8Player /\ dealer_hand = ClaimC8Dealer

\* C9 (as claimed): a busting player hand against any dealer hand whose best
\* total is <= 21 gives DealerWins(false).
C9_Original ==
    (Compared /\ BestOf(player) > 21 /\ BestOf(dealer_hand) <= 21)
    => result[1] = DealerWins(FALSE)

\* C9 (amended): a busting player hand against a dealer hand whose best total
\* is <= 21 gives DealerWins(false) unless the dealer hand is a natural, and
\* DealerWins(true) when it is.
C9_BustLoses ==
    (Compared /\ BestOf(player) > 21 /\ BestOf(dealer_hand) <= 21)
    => result[1] = DealerWins(IsNatural(dealer_hand))

\* [Seven, Eight, Nine] (hard 24, soft 24) has lost to a dealer 17..21 that is
\* no natural
C9_Witness ==
    /\ Compared
    /\ Len(player) = 3
    /\ << player[1].rank, player[2].rank, player[3].rank >> = << "Seven", "Eight", "Nine" >>
    /\ hand_value(player, FALSE).val = [ hard_total |-> 24, soft_total |-> 24 ]
    /\ BestOf(dealer_hand) \in 17..21 /\ ~IsNatural(dealer_hand)
    /\ result[1] = DealerWins(FALSE)

\* C14: with no natural on either side, compare_hands gives DealerWins(false)
\* when the player's best total exceeds 21, whatever the dealer's; otherwise
\* PlayerWins(false) when the player's best total is the greater,
\* DealerWins(false) when it is the smaller, and Push when the two are equal.
C14_OrdinaryComparison ==
    Compared =>
        \A p \in { BestOf(player) }, d \in { BestOf(dealer_hand) } :
            (~(Len(player) = 2 /\ p = 21) /\ ~(Len(dealer_hand) = 2 /\ d = 21)) =>
                /\ p > 21 => result[1] = DealerWins(FALSE)
                /\ (p <= 21 /\ p > d) => result[1] = PlayerWins(FALSE)
                /\ (p <= 21 /\ p < d) => result[1] = DealerWins(FALSE)
                /\ (p <= 21 /\ p = d) => result[1] = Push

\* two hands of three cards, both totalling 21, have been compared and pushed
C14_Witness ==
    /\ Compared
    /\ Len(player) = 3 /\ BestOf(player) = 21
    /\ Len(dealer_hand) = 3 /\ BestOf(dealer_hand) = 21
    /\ result[1] = Push


(***************************************************************************)
(* main.rs: BlackjackTable.  A usize is wider than the integers of the     *)
(* model checker; UsizeMax, the largest of those, stands for usize::MAX:   *)
(* a shoe never holds more than 312 cards, so only the low nine bits of a  *)
(* mask or of a random number ever meet a length.                          *)
(***************************************************************************)
num_boxes == 5

decks_per_shoe == 6

UsizeMax == 2147483647

BlackjackBox_default == [ child_box |-> << >>, cards |-> << >> ]

\* the loop of BlackjackTable::new that builds the shoe: k decks added
RECURSIVE new_shoe(_)
new_shoe(k) ==
    IF k = 0 THEN Deck_new_empty
    ELSE Deck_add_deck(new_shoe(k - 1), Deck_new).cards

BlackjackTable_new ==
    [ deck   |-> new_shoe(decks_per_shoe),
      boxes  |-> [ b \in 1..num_boxes |-> BlackjackBox_default ],
      dealer |-> << >> ]

\* bitwise AND of two non-negative integers
RECURSIVE BitAnd(_, _)
BitAnd(a, b) ==
    IF a = 0 \/ b = 0 THEN 0
    ELSE (a % 2) * (b % 2) + 2 * BitAnd(a \div 2, b \div 2)

\* the mask taken as len itself
usize_sub_one_omitted(len, checks) == [ panic |-> FALSE, val |-> len ]

\* len - 1 on usize: at len = 0 a build that checks overflow panics and one
\* that does not wraps to usize::MAX
usize_sub_one(len, checks) ==
    IF len = 0
    THEN [ panic |-> checks, val |-> UsizeMax ]
    ELSE [ panic |-> FALSE, val |-> len - 1 ]

\* draw_card taking the index as random % len, a bounded draw
draw_card_modulo(cards, random, checks) ==
    IF Deck_len(cards) = 0
    THEN [ panic |-> TRUE, cards |-> cards, ret |-> None, index |-> 0 ]
    ELSE LET index == random % Deck_len(cards)
             r     == Deck_draw_nth(cards, index)
         IN  [ panic |-> FALSE, cards |-> r.cards, ret |-> r.ret, index |-> index ]

\* draw_card: `rand::random::<usize>() & self.deck.len()-1` is
\* random & (len - 1), `-` binding tighter than `&`; then draw_nth(index)
draw_card(cards, random, checks) ==
    LET mask  == usize_sub_one(Deck_len(cards), checks)
        index == BitAnd(random, mask.val)
        r     == Deck_draw_nth(cards, index)
    IN  IF mask.panic
        THEN [ panic |-> TRUE, cards |-> cards, ret |-> None, index |-> index ]
        ELSE [ panic |-> FALSE, cards |-> r.cards, ret |-> r.ret, index |-> index ]

\* deal_cards, with the dealer dealt in both rounds
deal_cards_count_two_rounds(n) == n * 2

\* number of cards deal_cards deals, n being boxes.len() + 1
deal_cards_count(n) == n * 2 - 1

\* box_num of the i-th card of deal_cards
deal_cards_box_num(k, n) == k % n

\* a push that puts the card in front of the cards of box `index`
push_box_front(bxs, index, card) ==
    [ bxs EXCEPT ![index + 1].cards = << card >> \o @ ]

\* Vec::push on the cards of box `index` (0-indexed)
push_box(bxs, index, card) ==
    [ bxs EXCEPT ![index + 1].cards = Append(@, card) ]

(***************************************************************************)
(* Table actions.  hist records every call of a public operation (op, its  *)
(* box index in arg, the shoe length when called in len) and every call of *)
(* draw_card (the index it computed in arg, the shoe length before in len, *)
(* the card returned in ret).  A panic ends the process: no action         *)
(* follows.                                                                *)
(***************************************************************************)
TableCall(op, arg, len, ret) == [ op |-> op, arg |-> arg, len |-> len, ret |-> ret ]

TableFrame == UNCHANGED << other, overflow_checks, start, player, dealer_hand, result >>

NumCalls(ops) == Cardinality({ k \in DOMAIN hist : hist[k].op \in ops })

Hits == { "draw_card_for_box", "draw_card_for_dealer" }

\* deal_cards is entered: `let num_boxes = self.boxes.len()+1`
DealCardsCall ==
    /\ pc = "idle" /\ ~panicked
    /\ pc' = "deal_cards"
    /\ i' = 0
    /\ hist' = Append(hist, TableCall("deal_cards", 0, Deck_len(deck), None))
    /\ UNCHANGED << deck, boxes, dealer, panicked >>
    /\ TableFrame

\* one iteration of the loop of deal_cards; the loop ends after the last
DealCardsStep(random) ==
    /\ pc = "deal_cards" /\ ~panicked
    /\ LET n == Len(boxes) + 1
           r == draw_card(deck, random, overflow_checks)
           box_num == deal_cards_box_num(i, n)
       IN  /\ i < deal_cards_count(n)
           /\ hist' = Append(hist, TableCall("draw_card", r.index, Deck_len(deck), r.ret))
           /\ deck' = r.cards
           /\ IF r.panic \/ r.ret = None
              THEN /\ panicked' = TRUE
                   /\ UNCHANGED << boxes, dealer, pc, i >>
              ELSE /\ panicked' = FALSE
                   /\ IF box_num < n - 1
                      THEN boxes' = push_box(boxes, box_num, r.ret[1]) /\ dealer' = dealer
                      ELSE dealer' = Append(dealer, r.ret[1]) /\ boxes' = boxes
                   /\ i' = i + 1
                   /\ pc' = IF i + 1 < deal_cards_count(n) THEN "deal_cards" ELSE "idle"
    /\ TableFrame

DrawCardForBox(index, random) ==
    /\ pc = "idle" /\ ~panicked
    /\ LET r == draw_card(deck, random, overflow_checks)
       IN  /\ hist' = hist \o << TableCall("draw_card_for_box", index, Deck_len(deck), None),
                                 TableCall("draw_card", r.index, Deck_len(deck), r.ret) >>
           /\ deck' = r.cards
           /\ IF r.panic \/ r.ret = None
              THEN panicked' = TRUE /\ boxes' = boxes
              ELSE panicked' = FALSE /\ boxes' = push_box(boxes, index, r.ret[1])
    /\ UNCHANGED << dealer, pc, i >>
    /\ TableFrame

DrawCardForDealer(random) ==
    /\ pc = "idle" /\ ~panicked
    /\ LET r == draw_card(deck, random, overflow_checks)
       IN  /\ hist' = hist \o << TableCall("draw_card_for_dealer", 0, Deck_len(deck), None),
                                 TableCall("draw_card", r.index, Deck_len(deck), r.ret) >>
           /\ deck' = r.cards
           /\ IF r.panic \/ r.ret = None
              THEN panicked' = TRUE /\ dealer' = dealer
              ELSE panicked' = FALSE /\ dealer' = Append(dealer, r.ret[1])
    /\ UNCHANGED << boxes, pc, i >>
    /\ TableFrame

(***************************************************************************)
(* Spec: the table from BlackjackTable::new(), in either build mode.  One  *)
(* round is dealt per table (run_table_games builds a table per round), at *)
(* any point among at most MaxHits calls of draw_card_for_box and          *)
(* draw_card_for_dealer.  The random source returns 0 or 1: the front card *)
(* or, when the shoe length is even, the second card.                      *)
(***************************************************************************)
MaxHits == 2

RandomValues == { 0, 1 }

Init ==
    /\ deck = BlackjackTable_new.deck
    /\ boxes = BlackjackTable_new.boxes
    /\ dealer = BlackjackTable_new.dealer
    /\ pc = "idle"
    /\ i = 0
    /\ panicked = FALSE
    /\ overflow_checks \in BOOLEAN
    /\ hist = << >>
    /\ start = << >>
    /\ other = << >>
    /\ player = << >>
    /\ dealer_hand = << >>
    /\ result = << >>

Next ==
    \/ NumCalls({ "deal_cards" }) = 0 /\ DealCardsCall
    \/ \E random \in RandomValues : DealCardsStep(random)
    \/ NumCalls(Hits) < MaxHits /\
          \E index \in 0..(num_boxes - 1), random \in RandomValues : DrawCardForBox(index, random)
    \/ NumCalls(Hits) < MaxHits /\
          \E random \in RandomValues : DrawCardForDealer(random)

Spec == Init /\ [][Next]_vars


(***************************************************************************)
(* Properties of Spec                                                      *)
(***************************************************************************)
\* deal_cards was the first call on the table and no other call followed:
\* the deal on a freshly constructed table, under way or done
FreshDeal == hist # << >> /\ hist[1].op = "deal_cards" /\ NumCalls(Hits) = 0

\* the k-th card drawn by that deal, k = 0, 1, ...
Drawn(k) == hist[k + 2].ret[1]

\* the cards among the first n drawn whose number is b modulo num_boxes + 1
HandOf(b, n) ==
    [ j \in 1..Cardinality({ k \in 0..(n - 1) : k % (num_boxes + 1) = b }) |->
        Drawn(b + (j - 1) * (num_boxes + 1)) ]

\* C3: on a fresh table deal_cards draws exactly 2*num_boxes+1 cards, one at
\* a time; the k-th goes to box k mod (num_boxes+1) when that is < num_boxes
\* and to the dealer otherwise; at the end every box holds 2 cards, the
\* dealer 1, and the shoe 2*num_boxes+1 fewer than before.
C3_DealOrder ==
    FreshDeal =>
        LET n == Len(hist) - 1
        IN  /\ n <= 2 * num_boxes + 1
            /\ (pc = "idle") <=> (n = 2 * num_boxes + 1)
            /\ \A k \in 0..(n - 1) :
                  /\ hist[k + 2].op = "draw_card"
                  /\ hist[k + 2].ret # None
                  /\ hist[k + 2].len = hist[1].len - k
            /\ \A b \in 0..(num_boxes - 1) : boxes[b + 1].cards = HandOf(b, n)
            /\ dealer = HandOf(num_boxes, n)
            /\ Deck_len(deck) = hist[1].len - n
            /\ pc = "idle" =>
                  /\ \A b \in 1..num_boxes : Len(boxes[b].cards) = 2
                  /\ Len(dealer) = 1
                  /\ Deck_len(deck) = hist[1].len - (2 * num_boxes + 1)

\* the deal on the fresh table has returned, having drawn the second card of
\* the shoe at least once
C3_Witness ==
    /\ FreshDeal
    /\ pc = "idle"
    /\ ~panicked
    /\ \E k \in 2..Len(hist) : hist[k].op = "draw_card" /\ hist[k].arg = 1

\* every card on the table: the shoe, then the boxes in order, then the dealer
RECURSIVE BoxCards(_)
BoxCards(b) == IF b = 0 THEN << >> ELSE BoxCards(b - 1) \o boxes[b].cards

TableCards == deck \o BoxCards(Len(boxes)) \o dealer

\* C4: in every state reached from BlackjackTable::new() by deal_cards,
\* draw_card_for_box and draw_card_for_dealer, the shoe, the boxes and the
\* dealer together hold 52*decks_per_shoe cards, and these are exactly
\* decks_per_shoe copies of each card of the standard deck.
C4_TableConservation ==
    /\ Deck_len(deck) + Len(BoxCards(Len(boxes))) + Len(dealer) = 52 * decks_per_shoe
    /\ BagOfSeq(TableCards) = [ c \in Range(Deck_new) |-> decks_per_shoe ]

\* a round has been dealt and two more cards drawn, one for a box and one for
\* the dealer
C4_Witness ==
    /\ pc = "idle"
    /\ NumCalls({ "deal_cards" }) = 1
    /\ NumCalls({ "draw_card_for_box" }) = 1
    /\ NumCalls({ "draw_card_for_dealer" }) = 1
    /\ Len(dealer) = 2
    /\ Deck_len(deck) = 52 * decks_per_shoe - (2 * num_boxes + 1) - 2


(***************************************************************************)
(* The table late in its shoe: the state BlackjackTable::new() is in after *)
(* 312 - left calls of draw_card_for_box(0) in which the random source     *)
(* returned 0, so that each took the front card of the shoe.               *)
(***************************************************************************)
ShoeSize == 52 * decks_per_shoe

LateTable(left) ==
    [ deck   |-> SubSeq(BlackjackTable_new.deck, ShoeSize - left + 1, ShoeSize),
      boxes  |-> [ BlackjackTable_new.boxes EXCEPT
                     ![1].cards = SubSeq(BlackjackTable_new.deck, 1, ShoeSize - left) ],
      dealer |-> << >> ]

InitLateTable(lefts) ==
    /\ \E left \in lefts :
          /\ deck = LateTable(left).deck
          /\ boxes = LateTable(left).boxes
          /\ dealer = LateTable(left).dealer
    /\ pc = "idle"
    /\ i = 0
    /\ panicked = FALSE
    /\ overflow_checks \in BOOLEAN
    /\ hist = << >>
    /\ start = << >>
    /\ other = << >>
    /\ player = << >>
    /\ dealer_hand = << >>
    /\ result = << >>

(***************************************************************************)
(* SpecDraw: one call of draw_card, the private function every table       *)
(* operation draws through, on a shoe of every length 0..312 and for the   *)
(* random numbers 0..MaxRandom and usize::MAX.  The call is recorded with  *)
(* the random number, the index computed, the shoe length before and the   *)
(* value returned.                                                         *)
(***************************************************************************)
MaxRandom == 127

DrawRandoms == (0..MaxRandom) \cup { UsizeMax }

InitDraw == InitLateTable(0..ShoeSize)

DrawCard(random) ==
    /\ hist = << >>
    /\ LET r == draw_card(deck, random, overflow_checks)
       IN  /\ deck' = r.cards
           /\ panicked' = r.panic
           /\ hist' = << [ op |-> "draw_card", random |-> random, arg |-> r.index,
                           len |-> Deck_len(deck), ret |-> r.ret ] >>
    /\ UNCHANGED << boxes, dealer, pc, i >>
    /\ TableFrame

NextDraw == \E random \in DrawRandoms : DrawCard(random)

SpecDraw == InitDraw /\ [][NextDraw]_vars

\* C5: for every shoe of length len >= 1, a power of two or not, and every
\* random number, the index random AND (len - 1) that draw_card computes lies
\* in [0, len): draw_nth returns a card, the shoe loses exactly that one, and
\* "no card" is never reported while the shoe holds cards.
C5_IndexInRange ==
    (hist # << >> /\ Last.len >= 1) =>
        /\ Last.arg \in 0..(Last.len - 1)
        /\ Last.arg = BitAnd(Last.random, Last.len - 1)
        /\ Last.ret # None
        /\ ~panicked
        /\ Deck_len(deck) = Last.len - 1

\* a shoe of 51 cards, not a power of two, has been drawn from with a random
\* number whose low bits are all set
C5_Witness ==
    /\ hist # << >>
    /\ Last.len = 51
    /\ Last.random = UsizeMax
    /\ Last.arg = 50
    /\ Last.ret # None

\* C19 (as claimed): on a shoe of zero cards draw_card returns None: the
\* index computed from length 0 does not fail before draw_nth reports that
\* there is no card, and the empty shoe is left as it was.
C19_EmptyShoeGivesNone ==
    (hist # << >> /\ Last.op = "draw_card" /\ Last.len = 0) =>
        /\ ~panicked
        /\ Last.ret = None
        /\ Deck_len(deck) = 0

\* what holds on a shoe of zero cards: a build that checks overflow panics at
\* `len()-1` and one that does not returns None; the shoe stays empty
C19_EmptyShoeByBuild ==
    (hist # << >> /\ Last.op = "draw_card" /\ Last.len = 0) =>
        /\ panicked = overflow_checks
        /\ Last.ret = None
        /\ Deck_len(deck) = 0

\* the least power of two that is at least n
RECURSIVE PowerOfTwoAbove(_)
PowerOfTwoAbove(n) == IF n <= 1 THEN 1 ELSE 2 * PowerOfTwoAbove((n + 1) \div 2)

RECURSIVE IsPowerOfTwo(_)
IsPowerOfTwo(n) == n = 1 \/ (n > 1 /\ n % 2 = 0 /\ IsPowerOfTwo(n \div 2))

\* random numbers that between them show every pattern of the bits a mask of
\* a shoe of at most ShoeSize cards can keep, and the one with every bit set
AllRandoms == (0..(PowerOfTwoAbove(ShoeSize) - 1)) \cup { UsizeMax }

\* the shoe as it was before the last call of draw_card
ShoeBefore ==
    IF Last.ret = None THEN deck
    ELSE SubSeq(deck, 1, Last.arg) \o Last.ret \o SubSeq(deck, Last.arg + 1, Len(deck))

\* the positions draw_card can select in a shoe, over every random number
Selectable(cards) ==
    { draw_card(cards, random, overflow_checks).index : random \in AllRandoms }

\* the value of the lowest bit that is clear in mask
RECURSIVE LowestClearBit(_)
LowestClearBit(mask) == IF mask % 2 = 0 THEN 1 ELSE 2 * LowestClearBit(mask \div 2)

\* C21: over all values of the random source, the positions draw_card can
\* select in a shoe of len >= 1 cards are the whole of [0, len) exactly when
\* len is a power of two; for every other len, the 312 of the initial shoe
\* among them, some position in [0, len) is never selected.  The position
\* drawn is compared with one such position at every draw, and the whole set
\* is formed for the shoe of every draw made with all bits of the random
\* number set.
C21_SelectablePositions ==
    (hist # << >> /\ Last.op = "draw_card" /\ Last.len >= 1) =>
        /\ Deck_len(ShoeBefore) = Last.len
        /\ ~IsPowerOfTwo(Last.len) =>
              /\ LowestClearBit(Last.len - 1) \in 0..(Last.len - 1)
              /\ Last.arg # LowestClearBit(Last.len - 1)
        /\ Last.random = UsizeMax =>
              \A sel \in { Selectable(ShoeBefore) } :
                  /\ Last.arg \in sel
                  /\ sel \subseteq 0..(Last.len - 1)
                  /\ (sel = 0..(Last.len - 1)) <=> IsPowerOfTwo(Last.len)
                  /\ ~IsPowerOfTwo(Last.len) => LowestClearBit(Last.len - 1) \notin sel
                  /\ Last.len = ShoeSize => sel # 0..(ShoeSize - 1)

\* the initial shoe of 312 cards has been drawn from with every bit of the
\* random number set: position 311 was taken, and position 8 never can be
C21_Witness ==
    /\ hist # << >>
    /\ Last.op = "draw_card"
    /\ Last.len = ShoeSize
    /\ Last.random = UsizeMax
    /\ Last.arg = ShoeSize - 1
    /\ Last.ret # None
    /\ 8 \notin Selectable(ShoeBefore)

(***************************************************************************)
(* SpecLate: the table with at most MaxLeft cards left in the shoe, driven *)
(* by the same operations as Spec until it panics.                         *)
(***************************************************************************)
MaxLeft == 3

LateRandoms == { 0, 1, UsizeMax }

InitLate == InitLateTable(0..MaxLeft)

NextLate ==
    \/ NumCalls({ "deal_cards" }) = 0 /\ DealCardsCall
    \/ \E random \in LateRandoms : DealCardsStep(random)
    \/ \E index \in 0..(num_boxes - 1), random \in LateRandoms : DrawCardForBox(index, random)
    \/ \E random \in LateRandoms : DrawCardForDealer(random)

SpecLate == InitLate /\ [][NextLate]_vars

\* C10 (as claimed): when the shoe cannot supply a card, deal_cards,
\* draw_card_for_box and draw_card_for_dealer hand the exhaustion to their
\* caller as a result, and the process does not crash.
C10_ExhaustionSurfaced ==
    (hist # << >> /\ Last.op = "draw_card" /\ Last.len = 0) => ~panicked


(***************************************************************************)
(* SpecShoe: a deck from Deck::new() or Deck::new_empty() that is built up *)
(* the way BlackjackTable::new builds its shoe (`let mut d = ...;          *)
(* deck.add_deck(&mut d)`, at most decks_per_shoe times) and then drained  *)
(* by draw() the way deck.rs's test deck_default drains one, with at most  *)
(* MaxExtraDraws draws after the deck has run out.  hist records an        *)
(* add_deck as SpecDeck does and a draw with the length before it (len)    *)
(* and the value returned (ret).                                           *)
(***************************************************************************)
MaxExtraDraws == 2

InitShoe ==
    /\ deck \in { Deck_new, Deck_new_empty }
    /\ start = deck
    /\ other = << >>
    /\ hist = << >>
    /\ InitIdle

\* `let mut d = <a deck>; deck.add_deck(&mut d);`
NewAndAddDeck(d) ==
    /\ NumCalls({ "draw" }) = 0
    /\ NumCalls({ "add_deck" }) < decks_per_shoe
    /\ LET r == Deck_add_deck(deck, d)
       IN  /\ deck' = r.cards
           /\ other' = r.deck
           /\ hist' = Append(hist, Call("add_deck", 0, d, None, deck))
    /\ DeckFrame

FailedDraws == { k \in DOMAIN hist : hist[k].op = "draw" /\ hist[k].ret = None }

DrainDraw ==
    /\ Cardinality(FailedDraws) < MaxExtraDraws
    /\ LET r == Deck_draw(deck)
       IN  /\ deck' = r.cards
           /\ hist' = Append(hist, [ op |-> "draw", len |-> Deck_len(deck), ret |-> r.ret ])
    /\ UNCHANGED other
    /\ DeckFrame

NextShoe ==
    \/ \E d \in OtherDecks : NewAndAddDeck(d)
    \/ DrainDraw

SpecShoe == InitShoe /\ [][NextShoe]_vars

(***************************************************************************)
(* Properties of SpecShoe                                                  *)
(***************************************************************************)
\* nothing but draw() has been called
DrawsOnly == \A k \in DOMAIN hist : hist[k].op = "draw"

\* C11: Deck::new() holds 52 cards, position p holding the card of suit
\* ordinal p div 13 and rank ordinal p mod 13, none a Joker; 52 calls of
\* draw() return the cards of ordinal 51, 50, ..., 0 in that order, the first
\* being the King of Spades; the length is then 0 and every further draw
\* returns None.
C11_FreshDeckOrder ==
    /\ (start = Deck_new /\ hist = << >>) =>
          /\ Deck_len(deck) = 52
          /\ \A p \in 0..51 :
                /\ Suit_to_ordinal(deck[p + 1].suit) = p \div 13
                /\ Rank_to_ordinal(deck[p + 1].rank) = p % 13
                /\ deck[p + 1].rank # "Joker"
                /\ deck[p + 1].suit # "None"
    /\ (start = Deck_new /\ DrawsOnly) =>
          /\ \A k \in DOMAIN hist :
                IF k <= 52
                THEN /\ hist[k].ret # None
                     /\ CardOrdinal(hist[k].ret[1]) = 52 - k
                     /\ hist[k].len = 53 - k
                ELSE /\ hist[k].ret = None
                     /\ hist[k].len = 0
          /\ Deck_len(deck) = Max(52 - Len(hist), 0)
          /\ hist # << >> => hist[1].ret = Some(Card_from_suit_and_rank("Spades", "King"))

\* a fresh standard deck has been drawn 52 times and then once more
C11_Witness ==
    /\ start = Deck_new
    /\ DrawsOnly
    /\ Len(hist) = 53
    /\ hist[52].ret = Some(Card_from_suit_and_rank("Clubs", "Ace"))
    /\ hist[53].ret = None
    /\ Deck_len(deck) = 0

\* the calls so far are add_deck calls, each of a standard deck
StandardDecksOnly ==
    \A k \in DOMAIN hist : hist[k].op = "add_deck" /\ hist[k].given = Deck_new

\* C12: a.add_deck(b) leaves b empty and a holding its former cards followed
\* by b's former cards in their order: a grows by b's former length and no
\* card of a moves; so k standard decks added to an empty deck make 52*k
\* cards, position p holding the card of ordinal p mod 52.
C12_AddDeckAppends ==
    /\ (hist # << >> /\ Last.op = "add_deck") =>
          /\ Deck_len(other) = 0
          /\ Deck_len(deck) = Deck_len(Last.before) + Deck_len(Last.given)
          /\ \A p \in 1..Deck_len(Last.before) : deck[p] = Last.before[p]
          /\ \A p \in 1..Deck_len(Last.given) :
                deck[Deck_len(Last.before) + p] = Last.given[p]
    /\ (start = Deck_new_empty /\ StandardDecksOnly) =>
          /\ Deck_len(deck) = 52 * Len(hist)
          /\ \A p \in 0..(Deck_len(deck) - 1) :
                /\ CardOrdinal(deck[p + 1]) = p % 52
                /\ deck[p + 1] = Deck_new[(p % 52) + 1]

\* the shoe of BlackjackTable::new has been built: decks_per_shoe standard
\* decks added to an empty deck, the last of them to the 260 cards before it
C12_Witness ==
    /\ start = Deck_new_empty
    /\ StandardDecksOnly
    /\ Len(hist) = decks_per_shoe
    /\ Last.op = "add_deck"
    /\ Deck_len(Last.before) = 52 * (decks_per_shoe - 1)
    /\ Deck_len(other) = 0
    /\ deck = BlackjackTable_new.deck


(***************************************************************************)
(* SpecValue: BlackjackEvaluator::hand_value applied to one hand of        *)
(* standard cards, in either build mode, and get_best_total applied to the *)
(* HandTotal it returns.  The hands are every sequence of at most          *)
(* MaxValueLen cards over the thirteen ranks, in every order, and the      *)
(* hands of up to MaxLongHand cards in which two of the ranks Ace, Two,    *)
(* Three and King alternate (a shoe of six decks holds 24 cards of each    *)
(* rank, and the table lets a hand grow without limit).                    *)
(***************************************************************************)
MaxValueLen == 3

MaxLongHand == 26

LongRanks == { 0, 1, 2, 12 }

\* the hand holding the cards of rank ordinals ranks[1], ranks[2], ...
ShortHand(ranks) == [ k \in DOMAIN ranks |-> RankCard(ranks[k]) ]

\* the hand of n cards in which the ranks first and second alternate
LongHand(n, first, second) ==
    [ k \in 1..n |-> IF k % 2 = 1 THEN RankCard(first) ELSE RankCard(second) ]

InitValue ==
    /\ \/ \E n \in 0..MaxValueLen : \E ranks \in [ 1..n -> 0..12 ] :
             player = ShortHand(ranks)
       \/ \E n \in (MaxValueLen + 1)..MaxLongHand : \E first, second \in LongRanks :
             player = LongHand(n, first, second)
    /\ overflow_checks \in BOOLEAN
    /\ result = << >>
    /\ dealer_hand = << >>
    /\ deck = << >>
    /\ other = << >>
    /\ boxes = << >>
    /\ dealer = << >>
    /\ pc = "idle"
    /\ i = 0
    /\ panicked = FALSE
    /\ hist = << >>
    /\ start = << >>

\* one call of hand_value(&player)
HandValue ==
    /\ result = << >>
    /\ ~panicked
    /\ LET r == hand_value(player, overflow_checks)
       IN  /\ panicked' = r.panic
           /\ result' = IF r.panic THEN << >> ELSE << r.val >>
    /\ UNCHANGED << deck, other, boxes, dealer, pc, i, overflow_checks, hist,
                    start, player, dealer_hand >>

\* one call of get_best_total on the HandTotal that hand_value returned
GetBestTotal ==
    /\ result # << >>
    /\ hist = << >>
    /\ hist' = << [ op |-> "get_best_total", ret |-> get_best_total(result[1]) ] >>
    /\ UNCHANGED << deck, other, boxes, dealer, pc, i, panicked, overflow_checks,
                    start, player, dealer_hand, result >>

NextValue ==
    \/ HandValue
    \/ GetBestTotal

SpecValue == InitValue /\ [][NextValue]_vars

(***************************************************************************)
(* Properties of SpecValue                                                 *)
(***************************************************************************)
\* hand_value has been called
Valued == result # << >> \/ panicked

\* the value of one card as the specification lists it
ListedValue(card) ==
    IF card.rank = "Ace" THEN [ hard_total |-> 11, soft_total |-> 1 ]
    ELSE IF card.rank \in { "Ten", "Jack", "Queen", "King" }
    THEN [ hard_total |-> 10, soft_total |-> 10 ]
    ELSE LET face == CHOOSE v \in 2..9 :
                         card.rank = << "Two", "Three", "Four", "Five", "Six",
                                        "Seven", "Eight", "Nine" >>[v - 1]
         IN  [ hard_total |-> face, soft_total |-> face ]

\* the pointwise sum of the listed values of the cards of a hand
RECURSIVE ListedSum(_)
ListedSum(hand) ==
    IF hand = << >> THEN [ hard_total |-> 0, soft_total |-> 0 ]
    ELSE LET rest == ListedSum(SubSeq(hand, 1, Len(hand) - 1))
             last == ListedValue(hand[Len(hand)])
         IN  [ hard_total |-> rest.hard_total + last.hard_total,
               soft_total |-> rest.soft_total + last.soft_total ]

\* the same cards in other orders: every order of a short hand; a long hand
\* reversed, and with its first card moved to the end
Rearranged(hand) ==
    IF Len(hand) <= MaxValueLen
    THEN { [ k \in 1..Len(hand) |-> hand[f[k]] ] : f \in Permutations(1..Len(hand)) }
    ELSE { [ k \in 1..Len(hand) |-> hand[Len(hand) + 1 - k] ],
           SubSeq(hand, 2, Len(hand)) \o << hand[1] >> }

\* C15 (as claimed): hand_value of a hand of non-Joker cards is the pointwise
\* sum of the cards' values, Ace = (11, 1), Ten/Jack/Queen/King = (10, 10),
\* Two..Nine = (face, face); the empty hand gives (0, 0); and every
\* permutation of the cards gives the same HandTotal.
C15_HandValueIsSum ==
    Valued =>
        /\ ~panicked
        /\ result = << ListedSum(player) >>
        /\ player = << >> => result = << [ hard_total |-> 0, soft_total |-> 0 ] >>
        /\ \A hand \in Rearranged(player) :
              hand_value(hand, overflow_checks) = [ panic |-> FALSE, val |-> result[1] ]

\* what holds of hand_value: the claim for every hand whose hard total fits
\* in a u8, and the same outcome for every order of any hand
C15_HoldsUpToU8 ==
    Valued =>
        /\ ListedSum(player).hard_total <= 255 =>
              /\ ~panicked
              /\ result = << ListedSum(player) >>
        /\ ListedSum(player).hard_total > 255 =>
              /\ panicked = overflow_checks
              /\ ~panicked =>
                    result = << [ hard_total |-> ListedSum(player).hard_total % 256,
                                  soft_total |-> ListedSum(player).soft_total % 256 ] >>
        /\ \A hand \in Rearranged(player) :
              /\ hand_value(hand, overflow_checks).panic = panicked
              /\ ~panicked => hand_value(hand, overflow_checks).val = result[1]

\* 24 Aces have been valued: hard 264, soft 24
C15_Overflow ==
    /\ Valued
    /\ Len(player) = 24
    /\ \A k \in 1..24 : player[k].rank = "Ace"


\* C16: get_best_total is min(hard_total, soft_total) when hard_total > 21 and
\* max(hard_total, soft_total) otherwise; where soft_total <= hard_total, as
\* in a hand of standard cards, that is hard_total when hard_total <= 21 and
\* soft_total otherwise; a hand is bust (best total > 21) exactly when its
\* soft total exceeds 21; and [Ace, Ace], hard 22 / soft 2, resolves to 2.
C16_BestTotal ==
    (hist # << >> /\ Last.op = "get_best_total") =>
        LET total == result[1]
            best  == Last.ret
        IN  /\ total.hard_total > 21 => best = Min(total.hard_total, total.soft_total)
            /\ total.hard_total <= 21 => best = Max(total.hard_total, total.soft_total)
            /\ total.soft_total <= total.hard_total =>
                  best = IF total.hard_total <= 21 THEN total.hard_total
                                                   ELSE total.soft_total
            /\ (best > 21) <=> (total.soft_total > 21)
            /\ (Len(player) = 2 /\ player[1].rank = "Ace" /\ player[2].rank = "Ace") =>
                  /\ total = [ hard_total |-> 22, soft_total |-> 2 ]
                  /\ best = 2

\* [Ace, Ace] has been valued at hard 22 / soft 2 and resolved to 2
C16_Witness ==
    /\ Len(player) = 2
    /\ player[1].rank = "Ace" /\ player[2].rank = "Ace"
    /\ result = << [ hard_total |-> 22, soft_total |-> 2 ] >>
    /\ hist # << >>
    /\ Last.op = "get_best_total"
    /\ Last.ret = 2


(***************************************************************************)
(* SpecCard: Card::from_ordinals(suit, rank) applied to every pair of u8   *)
(* values, and suit().to_ordinal() and rank().to_ordinal() applied to the  *)
(* card it returns.  hist records the call with its arguments and then the *)
(* two ordinals read back; result holds the card.                          *)
(***************************************************************************)
U8Max == 255

InitCard ==
    /\ deck = << >>
    /\ start = << >>
    /\ other = << >>
    /\ hist = << >>
    /\ InitIdle

FromOrdinals(suit, rank) ==
    /\ hist = << >>
    /\ result' = << Card_from_ordinals(suit, rank) >>
    /\ hist' = << [ op |-> "from_ordinals", suit |-> suit, rank |-> rank ] >>
    /\ UNCHANGED << deck, other, boxes, dealer, pc, i, panicked, overflow_checks,
                    start, player, dealer_hand >>

ToOrdinals ==
    /\ Len(hist) = 1
    /\ hist' = Append(hist, [ op   |-> "to_ordinal",
                              suit |-> Suit_to_ordinal(result[1].suit),
                              rank |-> Rank_to_ordinal(result[1].rank) ])
    /\ UNCHANGED << deck, other, boxes, dealer, pc, i, panicked, overflow_checks,
                    start, player, dealer_hand, result >>

NextCard ==
    \/ hist = << >> /\ \E suit \in 0..U8Max, rank \in 0..U8Max : FromOrdinals(suit, rank)
    \/ ToOrdinals

SpecCard == InitCard /\ [][NextCard]_vars

\* C18: Card::from_ordinals(s, r) never fails; for s in 0..3 and r in 0..12
\* the card's suit and rank have the ordinals s and r; every other s gives
\* Suit::None (ordinal 4) and every other r gives Rank::Joker (ordinal 13),
\* whatever the other argument is.
C18_FromOrdinalsRoundTrip ==
    hist # << >> =>
        LET s    == hist[1].suit
            r    == hist[1].rank
            card == result[1]
        IN  /\ ~panicked
            /\ Len(result) = 1
            /\ card.suit \in Suits
            /\ card.rank \in Ranks
            /\ (s \in 0..3) <=> (card.suit # "None")
            /\ (r \in 0..12) <=> (card.rank # "Joker")
            /\ Len(hist) = 2 =>
                  /\ s \in 0..3 => hist[2].suit = s
                  /\ s \notin 0..3 => hist[2].suit = 4
                  /\ r \in 0..12 => hist[2].rank = r
                  /\ r \notin 0..12 => hist[2].rank = 13
            /\ (s = 0 /\ r = 12) => card = Card_from_suit_and_rank("Clubs", "King")
            /\ (s = 1 /\ r = 11) => card = Card_from_suit_and_rank("Diamonds", "Queen")
            /\ (s = 2 /\ r = 10) => card = Card_from_suit_and_rank("Hearts", "Jack")
            /\ (s = 3 /\ r = 9) => card = Card_from_suit_and_rank("Spades", "Ten")

\* from_ordinals(12, 113) has returned the Joker of no suit, whose ordinals
\* read back as 4 and 13
C18_Witness ==
    /\ Len(hist) = 2
    /\ hist[1].suit = 12 /\ hist[1].rank = 113
    /\ result = << Card_from_suit_and_rank("None", "Joker") >>
    /\ hist[2].suit = 4 /\ hist[2].rank = 13


(***************************************************************************)
(* box_total and dealer_total: hand_value of the hand as it is, returned   *)
(* to the caller.  hist records the call with the HandTotal returned; a    *)
(* panic inside hand_value ends the process.                               *)
(***************************************************************************)
BoxTotal(index) ==
    /\ pc = "idle" /\ ~panicked
    /\ LET r == hand_value(boxes[index + 1].cards, overflow_checks)
       IN  /\ panicked' = r.panic
           /\ hist' = Append(hist, TableCall("box_total", index, Deck_len(deck),
                                             IF r.panic THEN None ELSE Some(r.val)))
    /\ UNCHANGED << deck, boxes, dealer, pc, i >>
    /\ TableFrame

DealerTotal ==
    /\ pc = "idle" /\ ~panicked
    /\ LET r == hand_value(dealer, overflow_checks)
       IN  /\ panicked' = r.panic
           /\ hist' = Append(hist, TableCall("dealer_total", 0, Deck_len(deck),
                                             IF r.panic THEN None ELSE Some(r.val)))
    /\ UNCHANGED << deck, boxes, dealer, pc, i >>
    /\ TableFrame

(***************************************************************************)
(* SpecTotals: the table from BlackjackTable::new() under at most MaxCalls *)
(* calls of draw_card_for_box, draw_card_for_dealer, box_total and         *)
(* dealer_total, with one round dealt at any point among them.  The deal   *)
(* takes the front card of the shoe each time; a draw takes the front card *)
(* or the second; the boxes addressed are the first and the last.          *)
(***************************************************************************)
MaxCalls == 3

DealRandoms == { 0 }

TotalsBoxes == { 0, num_boxes - 1 }

Totals == { "box_total", "dealer_total" }

NextTotals ==
    \/ NumCalls({ "deal_cards" }) = 0 /\ DealCardsCall
    \/ \E random \in DealRandoms : DealCardsStep(random)
    \/ NumCalls(Hits \cup Totals) < MaxCalls /\
          \E index \in TotalsBoxes, random \in RandomValues : DrawCardForBox(index, random)
    \/ NumCalls(Hits \cup Totals) < MaxCalls /\
          \E random \in RandomValues : DrawCardForDealer(random)
    \/ NumCalls(Hits \cup Totals) < MaxCalls /\
          \E index \in TotalsBoxes : BoxTotal(index)
    \/ NumCalls(Hits \cup Totals) < MaxCalls /\ DealerTotal

SpecTotals == Init /\ [][NextTotals]_vars

(***************************************************************************)
(* Properties of SpecTotals                                                *)
(***************************************************************************)
\* the call a step makes: the first entry the step adds to hist
NewCall == hist'[Len(hist) + 1]

\* the value draw_card returned to the step's call: the last entry added
NewCard == hist'[Len(hist')].ret

\* what a step that makes a call does to the table
C20_Step ==
    Len(hist') > Len(hist) =>
        /\ (NewCall.op = "draw_card_for_box" /\ Deck_len(deck) >= 1) =>
              /\ ~panicked'
              /\ NewCard # None
              /\ Deck_len(deck') = Deck_len(deck) - 1
              /\ BagOfSeq(deck') (+) BagOfSeq(NewCard) = BagOfSeq(deck)
              /\ DOMAIN boxes' = DOMAIN boxes
              /\ boxes'[NewCall.arg + 1].cards =
                    Append(boxes[NewCall.arg + 1].cards, NewCard[1])
              /\ \A b \in DOMAIN boxes : b # NewCall.arg + 1 => boxes'[b] = boxes[b]
              /\ dealer' = dealer
        /\ (NewCall.op = "draw_card_for_dealer" /\ Deck_len(deck) >= 1) =>
              /\ ~panicked'
              /\ NewCard # None
              /\ Deck_len(deck') = Deck_len(deck) - 1
              /\ BagOfSeq(deck') (+) BagOfSeq(NewCard) = BagOfSeq(deck)
              /\ dealer' = Append(dealer, NewCard[1])
              /\ boxes' = boxes
        /\ NewCall.op = "box_total" =>
              /\ << deck', boxes', dealer' >> = << deck, boxes, dealer >>
              /\ LET v == hand_value(boxes'[NewCall.arg + 1].cards, overflow_checks)
                 IN  /\ panicked' = v.panic
                     /\ ~v.panic => NewCall.ret = Some(v.val)
        /\ NewCall.op = "dealer_total" =>
              /\ << deck', boxes', dealer' >> = << deck, boxes, dealer >>
              /\ LET v == hand_value(dealer', overflow_checks)
                 IN  /\ panicked' = v.panic
                     /\ ~v.panic => NewCall.ret = Some(v.val)

\* C20: with cards in the shoe and a valid box index i, draw_card_for_box(i)
\* takes exactly one card from the shoe and appends that card to the end of
\* box i's hand, leaving its earlier cards, every other box and the dealer
\* hand as they were; draw_card_for_dealer() does the same for the dealer
\* hand and leaves every box as it was; no draw is refused because of what
\* the hand already totals; box_total(i) and dealer_total() change nothing
\* and return hand_value of the hand's current cards.
C20_DrawsAndTotals == [][C20_Step]_vars

\* the last box, bust on three cards, has been given a fourth, and box_total
\* has then returned the value of the four
C20_Witness ==
    /\ Len(hist) >= 3
    /\ Last.op = "box_total"
    /\ Last.arg = num_boxes - 1
    /\ hist[Len(hist) - 2].op = "draw_card_for_box"
    /\ hist[Len(hist) - 2].arg = num_boxes - 1
    /\ Len(boxes[num_boxes].cards) = 4
    /\ get_best_total(hand_value(SubSeq(boxes[num_boxes].cards, 1, 3), FALSE).val) > 21
    /\ Last.ret = Some(hand_value(boxes[num_boxes].cards, FALSE).val)
    /\ ~panicked


\* C17: in every state reached from BlackjackTable::new() by deal_cards and
\* the draw operations, no card in the shoe, in a box or in the dealer hand is
\* a Joker or has suit None; so box_total and dealer_total never panic in
\* get_card_value, and compare_hands of a box against the dealer never
\* reaches that branch either.
C17_NoJokerOnTable ==
    /\ \A k \in DOMAIN deck : deck[k].rank # "Joker" /\ deck[k].suit # "None"
    /\ \A k \in DOMAIN dealer :
          /\ dealer[k].rank # "Joker" /\ dealer[k].suit # "None"
          /\ ~get_card_value(dealer[k]).panic
    /\ \A b \in DOMAIN boxes : \A k \in DOMAIN boxes[b].cards :
          /\ boxes[b].cards[k].rank # "Joker" /\ boxes[b].cards[k].suit # "None"
          /\ ~get_card_value(boxes[b].cards[k]).panic
    /\ \A b \in DOMAIN boxes : ~compare_hands(boxes[b].cards, dealer, FALSE).panic
    /\ (hist # << >> /\ Last.op \in Totals) => (~panicked /\ Last.ret # None)

\* a round has been dealt, a box has been given a third card and the dealer
\* a second, and dealer_total has returned the value of the dealer's two
C17_Witness ==
    /\ NumCalls({ "deal_cards" }) = 1
    /\ \E b \in DOMAIN boxes : Len(boxes[b].cards) = 3
    /\ Len(dealer) = 2
    /\ Last.op = "dealer_total"
    /\ Last.ret = Some(hand_value(dealer, FALSE).val)


(***************************************************************************)
(* SpecLong: the table of SpecTotals, started after draw_card_for_box(0)   *)
(* has been called a number of times with the random source returning 0,   *)
(* so that box 0 holds the front cards of the shoe: no call was refused,   *)
(* the table enforcing neither a stand nor a bust.  The numbers of calls   *)
(* are 0 and the three up to MaxDrawn.                                     *)
(***************************************************************************)
MaxDrawn == 37

DrawnBefore == { 0 } \cup ((MaxDrawn - 2)..MaxDrawn)

InitLong == InitLateTable({ ShoeSize - n : n \in DrawnBefore })

SpecLong == InitLong /\ [][NextTotals]_vars

\* the hand a call of box_total or dealer_total has valued
TotalledHand == IF Last.op = "box_total" THEN boxes[Last.arg + 1].cards ELSE dealer

\* C22 (as claimed): in every state reached from BlackjackTable::new() by
\* deal_cards, draw_card_for_box and draw_card_for_dealer, the hard and soft
\* totals that box_total(i) and dealer_total() add up are at most 255 each:
\* no u8 addition of hand_value overflows, and the total returned is the sum.
C22_TotalsFitU8 ==
    (hist # << >> /\ Last.op \in Totals) =>
        /\ ListedSum(TotalledHand).hard_total <= 255
        /\ ListedSum(TotalledHand).soft_total <= 255
        /\ ~panicked
        /\ Last.ret = Some(ListedSum(TotalledHand))

\* what holds of the totals: they are the sums while the hard sum is at most
\* 255; past it a build that checks overflow panics and one that does not
\* returns the sums modulo 256
C22_TotalsByBuild ==
    (hist # << >> /\ Last.op \in Totals) =>
        \A sum \in { ListedSum(TotalledHand) } :
            /\ sum.hard_total <= 255 => (~panicked /\ Last.ret = Some(sum))
            /\ sum.hard_total > 255 =>
                  /\ panicked = overflow_checks
                  /\ ~panicked => Last.ret = Some([ hard_total |-> sum.hard_total % 256,
                                                    soft_total |-> sum.soft_total % 256 ])

\* box 0 holds 37 cards, hard 265 / soft 235, and box_total(0) has been called
C22_Overflow ==
    /\ hist # << >>
    /\ Last.op = "box_total"
    /\ Last.arg = 0
    /\ Len(boxes[1].cards) = 37
    /\ ListedSum(boxes[1].cards) = [ hard_total |-> 265, soft_total |-> 235 ]

=============================================================================
